---- MODULE Spec2Model ----
(***************************************************************************)
(* ToolSeek: the tool-loop orchestrator of server.py (event_stream inside  *)
(* chat_completions) and the client's incremental tag scanner of cli.py    *)
(* (TagStreamer.feed, and the stream-consumption loop of main).            *)
(*                                                                         *)
(* Texts are sequences of one-character strings, so that slicing, find,    *)
(* startswith and endswith are computed as Python computes them.           *)
(***************************************************************************)
EXTENDS Integers, Sequences, FiniteSets, TLC

VARIABLES
    \* ---- server.py: chat_completions / event_stream ----
    pc,               \* position of the handler: "validate", "rejected", and in
                      \* event_stream "request", "stream", "yield", "after",
                      \* "closed", "raised", "gone"
    prefix,           \* nonlocal prefix (text from its trailing "<python>\n" on)
    is_thinking,      \* nonlocal is_thinking
    needs_restart,    \* nonlocal needs_restart
    start_with_code,  \* nonlocal start_with_code
    py_env,           \* py_env: the names bound in the execution namespace
    buffer,           \* per-sub-request buffer
    already_sent,     \* per-sub-request already_sent
    maybe_send,       \* per-sub-request maybe_send
    sink,             \* the events yielded to the client so far, in order
    requests,         \* number of upstream sub-requests issued so far
    nchunks,          \* number of upstream chunks consumed so far
    streamPos,        \* number of content characters received while thinking
    sentReq,          \* concatenation of the reasoning deltas taken from received
                      \* text that were yielded since the current sub-request began
    executed,         \* stream positions of the code blocks passed to run_python
    lastDelta,        \* content text of the upstream chunk taken last
    todo,             \* while suspended at a yield: the stages event_stream runs
                      \* when it is resumed, up to the end of the current step
    \* ---- server.py: chat_completions, the inbound request ----
    body,             \* the inbound request body
    status,           \* HTTP status of the response, 0 while there is none
    \* ---- server.py: several turns served by one process ----
    tpc,              \* per turn: "idle", "running", "done"
    turn_env,         \* per turn: the dict object its py_env names, 0 before
    heap,             \* per dict object: the names bound in it
    bound,            \* per turn: the names its own blocks alone leave bound
    runs,             \* per turn: number of run_python calls so far
    \* ---- cli.py: TagStreamer and the loop of main that feeds it ----
    cpc,              \* position of the client loop: "reading", "ended"
    buf,              \* TagStreamer._buf
    active,           \* TagStreamer.active ("None", "python", "output")
    out,              \* every (text, kind) segment returned by feed so far
    fed,              \* concatenation of every chunk passed to feed so far
    lastChunk,        \* the chunk of the latest feed call
    lastOut,          \* the segments the latest feed call returned
    nfeeds            \* number of feed calls so far

serverVars == <<pc, prefix, is_thinking, needs_restart, start_with_code, py_env,
                buffer, already_sent, maybe_send, sink, requests, nchunks,
                streamPos, sentReq, executed, lastDelta, todo>>
inboundVars == <<body, status>>
turnVars == <<tpc, turn_env, heap, bound, runs>>
clientVars == <<cpc, buf, active, out, fed, lastChunk, lastOut, nfeeds>>
\* what an action of one part leaves alone
notServer == <<inboundVars, turnVars, clientVars>>
notClient == <<serverVars, inboundVars, turnVars>>
notTurns == <<serverVars, inboundVars, clientVars>>
vars == <<serverVars, inboundVars, turnVars, clientVars>>

----------------------------------------------------------------------------
(* Bounds of the model.                                                    *)

\* upstream chunks consumed in one turn
MaxChunks == 3
\* upstream sub-requests issued in one turn
MaxRequests == 3
\* feed calls on one TagStreamer
MaxFeeds == 4
\* turns served by the process at the same time
MaxTurns == 2
\* run_python calls in one of these turns
MaxRuns == 3

----------------------------------------------------------------------------
(* Python string operations on texts.                                      *)

\* s[a:b] for 0 <= a, b
Slice(s, a, b) == SubSeq(s, a + 1, b)

\* s[a:]
SliceFrom(s, a) == SubSeq(s, a + 1, Len(s))

\* s.startswith(p)
StartsWith(s, p) == Len(p) <= Len(s) /\ SubSeq(s, 1, Len(p)) = p

\* s.endswith(p)
EndsWith(s, p) == Len(p) <= Len(s) /\ SubSeq(s, Len(s) - Len(p) + 1, Len(s)) = p

\* p occurs in s at 0-based offset i
OccursAt(s, p, i) == i >= 0 /\ i + Len(p) <= Len(s) /\ SubSeq(s, i + 1, i + Len(p)) = p

\* p in s
Contains(s, p) == \E i \in 0..(Len(s) - Len(p)) : OccursAt(s, p, i)

\* s.find(p): the lowest offset, -1 when there is none
Find(s, p) ==
    IF Contains(s, p)
    THEN CHOOSE i \in 0..(Len(s) - Len(p)) :
            /\ OccursAt(s, p, i)
            /\ \A j \in 0..(i - 1) : ~OccursAt(s, p, j)
    ELSE -1

\* s.rindex(p) if p in s else -1
RIndex(s, p) ==
    IF Contains(s, p)
    THEN CHOOSE i \in 0..(Len(s) - Len(p)) :
            /\ OccursAt(s, p, i)
            /\ \A j \in (i + 1)..(Len(s) - Len(p)) : ~OccursAt(s, p, j)
    ELSE -1

\* s.split(p, 1)[0]
SplitHead(s, p) == IF Contains(s, p) THEN Slice(s, 0, Find(s, p)) ELSE s

\* str.isspace() of one character, for the characters of the model
IsSpace(c) == c \in {" ", "\n", "\t"}

\* s.rstrip()
RECURSIVE RStrip(_)
RStrip(s) ==
    IF s = <<>> THEN <<>>
    ELSE IF IsSpace(s[Len(s)]) THEN RStrip(SubSeq(s, 1, Len(s) - 1))
    ELSE s

----------------------------------------------------------------------------
(* The literals of server.py.                                              *)

OpenPython == <<"<", "p", "y", "t", "h", "o", "n", ">">>
ClosePython == <<"<", "/", "p", "y", "t", "h", "o", "n", ">">>
CloseThink == <<"<", "/", "t", "h", "i", "n", "k", ">">>
\* "</think", the marker without its last character
CloseThinkOpen == <<"<", "/", "t", "h", "i", "n", "k">>
\* "<python>\n", the text the seeded prefix ends with and the first delta sent
SeedCode == OpenPython \o <<"\n">>
\* "</think>\n"
CloseThinkLine == CloseThink \o <<"\n">>
\* "\n<output>\n" and "\n</output>" around the output of a block
OutputHead == <<"\n", "<", "o", "u", "t", "p", "u", "t", ">", "\n">>
OutputTail == <<"\n", "<", "/", "o", "u", "t", "p", "u", "t", ">">>
\* "(no output)"
NoOutput == <<"(", "n", "o", " ", "o", "u", "t", "p", "u", "t", ")">>
\* what traceback.print_exc writes, cut to its first word and its newline
TraceText == <<"T", "r", "a", "c", "e", "b", "a", "c", "k", "\n">>

----------------------------------------------------------------------------
(* server.py: run_python.                                                  *)

\* s.lstrip()
RECURSIVE LStrip(_)
LStrip(s) ==
    IF s = <<>> THEN <<>>
    ELSE IF IsSpace(s[1]) THEN LStrip(SubSeq(s, 2, Len(s)))
    ELSE s

\* s.strip(), what eval does to its source before it compiles it
Strip(s) == LStrip(RStrip(s))

\* s.split("\n")
RECURSIVE Lines(_)
Lines(s) ==
    IF Contains(s, <<"\n">>)
    THEN <<SplitHead(s, <<"\n">>)>> \o Lines(SliceFrom(s, Find(s, <<"\n">>) + 1))
    ELSE <<s>>

\* The Python of the blocks: the expressions and statements a source text of
\* the model is made of. Every value a name is bound to is 1.
SrcNone == <<"N", "o", "n", "e">>
SrcSum == <<"2", "+", "2">>
SrcPrint == <<"p", "r", "i", "n", "t", "(", "1", ")">>
SrcDiv == <<"1", "/", "0">>
SrcExit == <<"e", "x", "i", "t", "(", ")">>
SrcPass == <<"p", "a", "s", "s">>
SrcName == <<"x">>
SrcAssign == <<"x", "=", "1">>
SrcDel == <<"d", "e", "l", " ", "x">>
DelHead == <<"d", "e", "l", " ">>

\* the keywords of Python written in lower-case letters only
Keywords ==
    { <<"a", "s">>, <<"i", "f">>, <<"i", "n">>, <<"i", "s">>, <<"o", "r">>,
      <<"a", "n", "d">>, <<"d", "e", "f">>, <<"d", "e", "l">>, <<"f", "o", "r">>,
      <<"n", "o", "t">>, <<"t", "r", "y">>, <<"e", "l", "i", "f">>,
      <<"e", "l", "s", "e">>, <<"f", "r", "o", "m">>, <<"p", "a", "s", "s">>,
      <<"w", "i", "t", "h">>, <<"a", "s", "y", "n", "c">>, <<"a", "w", "a", "i", "t">>,
      <<"b", "r", "e", "a", "k">>, <<"c", "l", "a", "s", "s">>, <<"r", "a", "i", "s", "e">>,
      <<"w", "h", "i", "l", "e">>, <<"y", "i", "e", "l", "d">>,
      <<"a", "s", "s", "e", "r", "t">>, <<"e", "x", "c", "e", "p", "t">>,
      <<"g", "l", "o", "b", "a", "l">>, <<"i", "m", "p", "o", "r", "t">>,
      <<"l", "a", "m", "b", "d", "a">>, <<"r", "e", "t", "u", "r", "n">>,
      <<"f", "i", "n", "a", "l", "l", "y">>, <<"c", "o", "n", "t", "i", "n", "u", "e">>,
      <<"n", "o", "n", "l", "o", "c", "a", "l">> }

\* a name: lower-case letters, no keyword
IsName(s) ==
    /\ s # <<>>
    /\ \A i \in DOMAIN s :
          s[i] \in {"a", "b", "c", "d", "e", "f", "g", "h", "i", "j", "k", "l", "m",
                    "n", "o", "p", "q", "r", "s", "t", "u", "v", "w", "x", "y", "z"}
    /\ s \notin Keywords

\* the builtins the blocks use, and the repr of each
ExitName == <<"e", "x", "i", "t">>
PrintName == <<"p", "r", "i", "n", "t">>
ExitRepr ==
    <<"U", "s", "e", " ", "e", "x", "i", "t", "(", ")", " ", "o", "r", " ", "C", "t",
      "r", "l", "-", "D", " ", "(", "i", ".", "e", ".", " ", "E", "O", "F", ")", " ",
      "t", "o", " ", "e", "x", "i", "t">>
PrintRepr ==
    <<"<", "b", "u", "i", "l", "t", "-", "i", "n", " ", "f", "u", "n", "c", "t", "i",
      "o", "n", " ", "p", "r", "i", "n", "t", ">">>

\* s without the spaces and tabs at its two ends
RECURSIVE Trim(_)
Trim(s) ==
    IF s = <<>> THEN <<>>
    ELSE IF s[1] \in {" ", "\t"} THEN Trim(SubSeq(s, 2, Len(s)))
    ELSE IF s[Len(s)] \in {" ", "\t"} THEN Trim(SubSeq(s, 1, Len(s) - 1))
    ELSE s

\* the index of the first character of s that is in cs, 0 when none is
FirstOf(s, cs) ==
    LET at == { i \in DOMAIN s : s[i] \in cs }
    IN  IF at = {} THEN 0 ELSE CHOOSE i \in at : \A j \in at : i <= j

\* the texts of s between the characters of cs, k the index of the first
RECURSIVE SplitAt(_, _)
CutAt(s, cs, k) ==
    IF k = 0 THEN <<s>>
    ELSE <<SubSeq(s, 1, k - 1)>> \o SplitAt(SubSeq(s, k + 1, Len(s)), cs)
SplitAt(s, cs) == CutAt(s, cs, FirstOf(s, cs))

\* the characters of s that are in cs, in their order
Only(s, cs) == SelectSeq(s, LAMBDA c : c \in cs)

\* the operands of the comparison s (s itself when it has no operator), and
\* its operators
Comparators == {"<", ">"}
TrimEach(parts) == [i \in DOMAIN parts |-> Trim(parts[i])]
Operands(s) == TrimEach(SplitAt(s, Comparators))
Operators(s) == Only(s, Comparators)

\* "name()"
CallTail == <<"(", ")">>
IsCall(s) == EndsWith(s, CallTail) /\ IsName(SubSeq(s, 1, Len(s) - Len(CallTail)))

\* an operand: a constant, a sum, a quotient, a name or a call
IsPrimary(s) == s \in {SrcNone, SrcSum, SrcPrint, SrcDiv} \/ IsName(s) \/ IsCall(s)

\* what compiles as an expression, so that eval takes it: an operand, or
\* operands compared by < and >
AllPrimary(operands) == \A i \in DOMAIN operands : IsPrimary(operands[i])
IsExpression(s) == AllPrimary(Operands(s))

\* "name = 1", sides what stands left and right of "="
IsTarget(sides) == Len(sides) = 2 /\ IsName(sides[1]) /\ sides[2] = <<"1">>
IsAssign(s) == IsTarget(TrimEach(SplitAt(s, {"="})))

\* "del name"
IsDel(s) ==
    /\ StartsWith(s, DelHead)
    /\ IsName(Trim(SliceFrom(s, Len(DelHead))))

\* What compiles as one line of a module, so that exec takes it. A line that
\* starts with a blank is an IndentationError, which is a SyntaxError.
IsSimple(s) == s = SrcPass \/ IsAssign(s) \/ IsDel(s) \/ IsExpression(s)
IsStatement(line) ==
    \/ Strip(line) = <<>>
    \/ ~IsSpace(line[1]) /\ IsSimple(RStrip(line))

\* What evaluating a source text does, as far as run_python can see it: the
\* text it writes to stdout (with the repr of a non-None value), whether it
\* raises, whether what it raises is an Exception (ZeroDivisionError,
\* NameError, TypeError, SyntaxError) or only a BaseException (SystemExit),
\* and the names bound in the namespace after it.
Quiet(env) == [captured |-> <<>>, fault |-> FALSE, isException |-> FALSE, env |-> env]
Says(oc, text) == [oc EXCEPT !.captured = @ \o text]
Faults(oc, isException) == [oc EXCEPT !.fault = TRUE, !.isException = isException]

\* the value of an evaluated expression: the text it wrote, the repr of the
\* value (none for None) and the fault raised instead
Value(text) == [out |-> <<>>, value |-> text, fault |-> FALSE, isException |-> FALSE]
Raises(isException) ==
    [out |-> <<>>, value |-> <<>>, fault |-> TRUE, isException |-> isException]

\* the reprs of the integers of the model
IsNumber(v) == v \in {<<"1">>, <<"4">>}
NumberOf(v) == IF v = <<"4">> THEN 4 ELSE 1

\* A call is evaluated: a name a block has bound holds 1, which is not
\* callable (TypeError); a name bound nowhere is a NameError; exit() raises
\* SystemExit and print writes its argument and a newline.
CallResult(name, written, env) ==
    IF name \in env THEN Raises(TRUE)
    ELSE IF name = ExitName THEN Raises(FALSE)
    ELSE IF name = PrintName THEN [Value(<<>>) EXCEPT !.out = written \o <<"\n">>]
    ELSE Raises(TRUE)

\* An operand is evaluated: a name is looked up in env, then in the builtins.
PrimaryResult(e, env) ==
    CASE e = SrcNone -> Value(<<>>)
      [] e = SrcSum -> Value(<<"4">>)
      [] e = SrcDiv -> Raises(TRUE)
      [] e = SrcPrint -> CallResult(PrintName, <<"1">>, env)
      [] IsCall(e) -> CallResult(SubSeq(e, 1, Len(e) - Len(CallTail)), <<>>, env)
      [] OTHER -> IF e \in env THEN Value(<<"1">>)
                  ELSE IF e = ExitName THEN Value(ExitRepr)
                  ELSE IF e = PrintName THEN Value(PrintRepr)
                  ELSE Raises(TRUE)

\* a < b, a > b on two values: a TypeError unless both are numbers
Holds(op, l, r) == IF op = "<" THEN NumberOf(l) < NumberOf(r) ELSE NumberOf(l) > NumberOf(r)

\* The comparisons of a chain from operand i on, left the value of operand
\* i - 1 and written the text written so far: each operand is evaluated once,
\* in order, and the chain stops at the first comparison that is false.
RECURSIVE Chain(_, _, _, _, _, _)
Link(operands, operators, i, left, written, env, r) ==
    IF r.fault THEN [r EXCEPT !.out = written \o r.out]
    ELSE IF ~IsNumber(left) \/ ~IsNumber(r.value)
    THEN [Raises(TRUE) EXCEPT !.out = written \o r.out]
    ELSE IF ~Holds(operators[i - 1], left, r.value)
    THEN [Value(<<"F", "a", "l", "s", "e">>) EXCEPT !.out = written \o r.out]
    ELSE IF i = Len(operands)
    THEN [Value(<<"T", "r", "u", "e">>) EXCEPT !.out = written \o r.out]
    ELSE Chain(operands, operators, i + 1, r.value, written \o r.out, env)
Chain(operands, operators, i, left, written, env) ==
    Link(operands, operators, i, left, written, env, PrimaryResult(operands[i], env))

\* the first operand is evaluated, then the comparisons it is in
Compared(operands, operators, first, env) ==
    IF first.fault \/ Len(operands) = 1 THEN first
    ELSE Chain(operands, operators, 2, first.value, first.out, env)

\* An expression is evaluated: what it prints, the repr of its value (none
\* for None) and the fault it raises instead.
ExprResult(e, env) ==
    Compared(Operands(e), Operators(e), PrimaryResult(Head(Operands(e)), env), env)

\* "if result is not None: print(repr(result))" after what the expression
\* wrote itself
Printed(r) == r.out \o (IF r.value = <<>> THEN <<>> ELSE r.value \o <<"\n">>)

\* the result r of an expression, after what oc holds: what it wrote, and
\* its fault
After(oc, r) == IF r.fault THEN Faults(Says(oc, r.out), r.isException) ELSE Says(oc, r.out)

\* "result = eval(src, env); if result is not None: print(repr(result))"
Shown(oc, r) == IF r.fault THEN After(oc, r) ELSE Says(oc, Printed(r))
EvalSource(e, env) == Shown(Quiet(env), ExprResult(e, env))

\* "name = 1" binds name
Bind(oc, sides) == [oc EXCEPT !.env = @ \cup {Head(sides)}]

\* "del name" unbinds name, a NameError when it is not bound
Unbind(oc, name) ==
    IF name \in oc.env THEN [oc EXCEPT !.env = @ \ {name}] ELSE Faults(oc, TRUE)

\* one statement s of exec(src, env), after what oc holds
ExecStatement(s, oc) ==
    IF s = <<>> \/ s = SrcPass THEN oc
    ELSE IF IsAssign(s) THEN Bind(oc, TrimEach(SplitAt(s, {"="})))
    ELSE IF IsDel(s) THEN Unbind(oc, Trim(SliceFrom(s, Len(DelHead))))
    ELSE After(oc, ExprResult(s, oc.env))
ExecLine(line, oc) == ExecStatement(RStrip(line), oc)

\* the statements of exec(src, env) in turn, up to the first that raises
RECURSIVE ExecLines(_, _)
ExecLines(lines, oc) ==
    IF lines = <<>> \/ oc.fault THEN oc
    ELSE ExecLines(Tail(lines), ExecLine(Head(lines), oc))

\* The try block of run_python on src: eval when src is an expression, and
\* when compiling it as one is a SyntaxError, exec, which raises a
\* SyntaxError itself, before any effect, when src is no module either.
AllStatements(lines) == \A i \in DOMAIN lines : IsStatement(lines[i])
Run(e, lines, env) ==
    IF IsExpression(e) THEN EvalSource(e, env)
    ELSE IF AllStatements(lines) THEN ExecLines(lines, Quiet(env))
    ELSE Faults(Quiet(env), TRUE)
Evaluate(src, env) == Run(Strip(src), Lines(src), env)

\* "except Exception": run_python returns unless the fault is no Exception
Returns(oc) == ~oc.fault \/ oc.isException

\* buf.getvalue() at the return: the captured text, then the trace of a fault
Captured(oc) == oc.captured \o (IF oc.fault THEN TraceText ELSE <<>>)

\* run_python(src, env): buf.getvalue().rstrip() or "(no output)"
RunPython(oc) == IF RStrip(Captured(oc)) = <<>> THEN NoOutput ELSE RStrip(Captured(oc))

\* f"\n<output>\n{output}\n</output>"
FormatOutput(output) == OutputHead \o output \o OutputTail

----------------------------------------------------------------------------
(* server.py: event_stream.                                                *)

\* the events yielded to the client
Reasoning(t) == [type |-> "reasoning", text |-> t]
Raw(t) == [type |-> "raw", text |-> t]
ErrorEvent == [type |-> "error", text |-> <<>>]
DoneEvent == [type |-> "done", text |-> <<>>]

\* the content texts an upstream chunk may carry while thinking is open
Chunks ==
    { <<"a">>,
      <<"a", "<">>,
      ClosePython,
      OpenPython,
      CloseThink,
      <<"<", "/", "t", "h", "i">>,
      <<"n", "k", ">">>,
      CloseThink \o <<"<">>,
      ClosePython \o <<"b">> \o OpenPython,
      SrcAssign,
      SrcExit }

\* the content texts an upstream chunk may carry once thinking is closed
AnswerChunks == { <<"a">>, ClosePython }

\* the buffer of the sub-request before, kept instead of reset
StaleBuffer == buffer

\* buffer = "" at the head of the tool loop
FreshBuffer == <<>>

\* the "</think"[:i], i in 1..len("</think"), that buffer ends with: the first
\* i the for loop finds, 0 when any(...) is false
PartialLen(b) ==
    IF \E i \in 1..Len(CloseThinkOpen) : EndsWith(b, Slice(CloseThinkOpen, 0, i))
    THEN CHOOSE i \in 1..Len(CloseThinkOpen) :
            /\ EndsWith(b, Slice(CloseThinkOpen, 0, i))
            /\ \A j \in 1..(i - 1) : ~EndsWith(b, Slice(CloseThinkOpen, 0, j))
    ELSE 0

\* "Only send what hasn't been sent yet": new_content, empty when the guard
\* text_to_yield.startswith(already_sent) fails
NewContent(text_to_yield, sent) ==
    IF StartsWith(text_to_yield, sent) THEN SliceFrom(text_to_yield, Len(sent)) ELSE <<>>

\* the variables of event_stream as one record
Cur ==
    [buffer |-> buffer, already_sent |-> already_sent, maybe_send |-> maybe_send,
     prefix |-> prefix, is_thinking |-> is_thinking, needs_restart |-> needs_restart,
     start_with_code |-> start_with_code, py_env |-> py_env]

\* One stretch of event_stream between two suspensions: st the variables at
\* its end, events what it hands to the consumer there (one event at a yield,
\* none otherwise), fresh the received text in that event, exec the block it
\* passed to run_python (offset of the closing marker in buffer, source), pc
\* where it ends: "yield" when suspended at a yield.
Stage(st, events, fresh, exec, at) ==
    [st |-> st, events |-> events, fresh |-> fresh, exec |-> exec, pc |-> at]

\* a yield of event, reached with the variables st
Yield(st, event, fresh) == Stage(st, <<event>>, fresh, <<>>, "yield")

\* the yield of a delta, which is skipped for an empty new_content; the
\* assignments that follow the yield are not in st
Deltas(st, t) == IF t = <<>> THEN <<>> ELSE <<Yield(st, Reasoning(t), t)>>

\* if start_with_code: buffer and already_sent become "<python>\n"
StartChunk(st) ==
    IF st.start_with_code
    THEN [st EXCEPT !.buffer = SeedCode, !.already_sent = SeedCode,
                    !.start_with_code = FALSE]
    ELSE st

\* ... and "<python>\n" is yielded as the first delta
StartStages(st) ==
    IF st.start_with_code
    THEN <<Yield(StartChunk(st), Reasoning(SeedCode), SeedCode)>>
    ELSE <<>>

\* What the body of the async for has done so far: stages the yields it went
\* through, st the variables now, ctl how the body is left ("block" for the
\* fall through to the search for a complete block), exec the block passed to
\* run_python since the last yield.
Outcome(stages, st, ctl) == [stages |-> stages, st |-> st, ctl |-> ctl, exec |-> <<>>]

\* The four branches on buffer, up to the continue, the break, or the fall
\* through to the search for a complete block.
OnText(st, text) ==
    LET b == st.buffer \o text
        part == PartialLen(b)
        text_to_yield ==
            IF Contains(b, ClosePython) THEN SplitHead(b, ClosePython) \o ClosePython
            ELSE IF part > 0 THEN Slice(b, 0, Len(b) - part)
            ELSE SplitHead(b, CloseThink)
        new_content == NewContent(text_to_yield, st.already_sent)
        got == [st EXCEPT !.buffer = b]
        sent == [got EXCEPT !.already_sent = @ \o new_content,
                            !.prefix = @ \o new_content]
        released == [got EXCEPT !.already_sent = @ \o st.maybe_send,
                                !.prefix = @ \o st.maybe_send,
                                !.maybe_send = <<>>]
    IN  IF Contains(b, ClosePython)
        THEN Outcome(Deltas(got, new_content), sent, "block")
        ELSE IF part > 0
        THEN Outcome(Deltas(got, new_content),
                     [sent EXCEPT !.maybe_send = @ \o text], "continue")
        ELSE IF Contains(b, CloseThink)
        THEN Outcome(Deltas(got, new_content),
                     [sent EXCEPT !.is_thinking = FALSE,
                                  !.prefix = @ \o text_to_yield \o CloseThinkLine,
                                  !.needs_restart = TRUE],
                     "break")
        ELSE Outcome(Deltas(got, st.maybe_send) \o <<Yield(released, Reasoning(text), text)>>,
                     [released EXCEPT !.already_sent = @ \o text,
                                      !.prefix = @ \o text],
                     "continue")

\* the test for a block that asks only for both markers
NoBlockUnordered(last_start, last_end) == last_start = -1 \/ last_end = -1

\* "if last_start == -1 or last_end == -1 or last_start > last_end: continue"
NoBlock(last_start, last_end) ==
    last_start = -1 \/ last_end = -1 \/ last_start > last_end

\* "Look for complete Python code block": the last <python> and the last
\* </python> of buffer, the call of run_python (which binds the names of the
\* block in py_env whether it returns or not), prefix extended by the output
\* block, the yield of the output block, and after it already_sent,
\* needs_restart and the break.
OnBlock(r) ==
    LET b == r.st.buffer
        last_start == RIndex(b, OpenPython)
        last_end == RIndex(b, ClosePython)
        code == Slice(b, last_start + Len(OpenPython), last_end)
        oc == Evaluate(code, r.st.py_env)
        formatted_output == FormatOutput(RunPython(oc))
        block == <<[at |-> last_end, code |-> code]>>
        ran == [r.st EXCEPT !.py_env = oc.env]
        extended == [ran EXCEPT !.prefix = @ \o formatted_output]
    IN  IF NoBlock(last_start, last_end)
        THEN [r EXCEPT !.ctl = "continue"]
        ELSE IF ~Returns(oc)
        THEN [r EXCEPT !.st = ran, !.ctl = "raise", !.exec = block]
        ELSE [r EXCEPT !.stages = @ \o <<Stage(extended, <<Reasoning(formatted_output)>>,
                                               <<>>, block, "yield")>>,
                       !.st = [extended EXCEPT !.already_sent = @ \o formatted_output,
                                               !.needs_restart = TRUE],
                       !.ctl = "break"]

\* the async for that no break leaves
LeaveNever(ctl) == "stream"

\* Where control is after the body of the async for: "break" leaves the
\* stream for the code after the loop, a fault that neither run_python nor the
\* "except Exception" of event_stream catches ends the generator, and
\* anything else takes the next chunk of the same stream.
Leave(ctl) ==
    CASE ctl = "break" -> "after"
      [] ctl = "raise" -> "raised"
      [] OTHER -> "stream"

\* One upstream chunk with a non-empty content text, thinking open: the body
\* of the async for from the start_with_code test to its continue or break,
\* as the stages it goes through, the last one ending where Leave says.
OnContent(st, text) ==
    LET r == OnText(StartChunk(st), text)
        done == IF r.ctl = "block" THEN OnBlock(r) ELSE r
    IN  StartStages(st) \o done.stages
           \o <<Stage(done.st, <<>>, <<>>, done.exec, Leave(done.ctl))>>

\* event_stream runs the first of stages: its variables become those at the
\* end of that stage, its event is handed to the consumer, and the stages
\* after it are what a resumption will run. pos is the number of content
\* characters received so far, by which the block is placed in the stream.
Land(stages, pos) ==
    LET s == Head(stages)
    IN  /\ buffer' = s.st.buffer
        /\ already_sent' = s.st.already_sent
        /\ maybe_send' = s.st.maybe_send
        /\ prefix' = s.st.prefix
        /\ is_thinking' = s.st.is_thinking
        /\ needs_restart' = s.st.needs_restart
        /\ start_with_code' = s.st.start_with_code
        /\ py_env' = s.st.py_env
        /\ sink' = sink \o s.events
        /\ sentReq' = sentReq \o s.fresh
        /\ executed' = executed \o [i \in DOMAIN s.exec |->
                                      [at |-> pos - Len(s.st.buffer) + s.exec[i].at,
                                       code |-> s.exec[i].code]]
        /\ pc' = s.pc
        /\ todo' = Tail(stages)

\* The head of the tool loop: the per-sub-request texts are reset and the
\* upstream request is issued with the current prefix.
Request ==
    /\ pc = "request"
    /\ requests < MaxRequests
    /\ buffer' = FreshBuffer
    /\ already_sent' = <<>>
    /\ maybe_send' = <<>>
    /\ sentReq' = <<>>
    /\ requests' = requests + 1
    /\ pc' = "stream"
    /\ UNCHANGED <<prefix, is_thinking, needs_restart, start_with_code, py_env, sink,
                   nchunks, streamPos, executed, lastDelta, todo>>
    /\ UNCHANGED notServer

\* A chunk whose delta carries content arrives while thinking is open:
\* event_stream runs up to its first yield, or to the continue or break when
\* the chunk makes it yield nothing.
Chunk ==
    /\ pc = "stream"
    /\ is_thinking
    /\ nchunks < MaxChunks
    /\ nchunks' = nchunks + 1
    /\ \E text \in Chunks :
          \E stages \in {OnContent(Cur, text)} :
              /\ Land(stages, streamPos + Len(text))
              /\ streamPos' = streamPos + Len(text)
              /\ lastDelta' = text
    /\ UNCHANGED requests
    /\ UNCHANGED notServer

\* A chunk with no choices or no content in its delta, while thinking is open.
ChunkNoContent ==
    /\ pc = "stream"
    /\ is_thinking
    /\ nchunks < MaxChunks
    /\ nchunks' = nchunks + 1
    /\ Land(StartStages(Cur) \o <<Stage(StartChunk(Cur), <<>>, <<>>, <<>>, "stream")>>,
            streamPos)
    /\ lastDelta' = <<>>
    /\ UNCHANGED <<requests, streamPos>>
    /\ UNCHANGED notServer

\* a chunk after the end of thinking taken as more reasoning
ChunkForwardScanned ==
    /\ pc = "stream"
    /\ ~is_thinking
    /\ nchunks < MaxChunks
    /\ nchunks' = nchunks + 1
    /\ \E text \in AnswerChunks :
          /\ Land(<<Yield([Cur EXCEPT !.prefix = @ \o text], Reasoning(text), <<>>),
                    Stage([Cur EXCEPT !.prefix = @ \o text], <<>>, <<>>, <<>>, "stream")>>,
                  streamPos)
          /\ lastDelta' = text
    /\ UNCHANGED <<requests, streamPos>>
    /\ UNCHANGED notServer

\* "No longer in CoT": the chunk is forwarded as it came, and the continue
\* follows the yield.
ChunkForward ==
    /\ pc = "stream"
    /\ ~is_thinking
    /\ nchunks < MaxChunks
    /\ nchunks' = nchunks + 1
    /\ \E text \in AnswerChunks :
          /\ Land(StartStages(Cur)
                     \o <<Yield(StartChunk(Cur), Raw(text), <<>>),
                          Stage(StartChunk(Cur), <<>>, <<>>, <<>>, "stream")>>,
                  streamPos)
          /\ lastDelta' = text
    /\ UNCHANGED <<requests, streamPos>>
    /\ UNCHANGED notServer

\* The consumer asks for the next event: event_stream goes on from the yield
\* it is suspended at, to its next yield or to the end of the step.
Resume ==
    /\ pc = "yield"
    /\ todo # <<>>
    /\ Land(todo, streamPos)
    /\ UNCHANGED <<requests, nchunks, streamPos, lastDelta>>
    /\ UNCHANGED notServer

\* The consumer goes away while event_stream is suspended at a yield: aclose
\* raises GeneratorExit there, which no except clause of event_stream
\* catches, and the generator is over with its variables as they are.
ConsumerCloses ==
    /\ pc = "yield"
    /\ pc' = "gone"
    /\ todo' = <<>>
    /\ UNCHANGED <<prefix, is_thinking, needs_restart, start_with_code, py_env, buffer,
                   already_sent, maybe_send, sink, requests, nchunks, streamPos, sentReq,
                   executed, lastDelta>>
    /\ UNCHANGED notServer

\* The upstream stream is exhausted: the async for ends without a break.
StreamEnd ==
    /\ pc = "stream"
    /\ pc' = "after"
    /\ UNCHANGED <<prefix, is_thinking, needs_restart, start_with_code, py_env, buffer,
                   already_sent, maybe_send, sink, requests, nchunks, streamPos, sentReq,
                   executed, lastDelta, todo>>
    /\ UNCHANGED notServer

\* After the async for: a pending restart goes back to the head of the loop;
\* otherwise the sentinel is yielded, and from that yield control falls off
\* the end of the try statement, which is the end of the body of while True.
AfterLoop ==
    /\ pc = "after"
    /\ IF needs_restart
       THEN Land(<<Stage([Cur EXCEPT !.needs_restart = FALSE], <<>>, <<>>, <<>>,
                         "request")>>, streamPos)
       ELSE Land(<<Yield(Cur, DoneEvent, <<>>),
                   Stage(Cur, <<>>, <<>>, <<>>, "request")>>, streamPos)
    /\ UNCHANGED <<requests, nchunks, streamPos, lastDelta>>
    /\ UNCHANGED notServer

\* the except branch without its break: the tool loop goes on
UpstreamErrorNoBreak ==
    /\ pc = "stream"
    /\ Land(<<Yield(Cur, ErrorEvent, <<>>), Yield(Cur, DoneEvent, <<>>),
              Stage(Cur, <<>>, <<>>, <<>>, "request")>>, streamPos)
    /\ UNCHANGED <<requests, nchunks, streamPos, lastDelta>>
    /\ UNCHANGED notServer

\* openai.chat.completions.create or the iteration of its stream raises: the
\* except branch yields the error, then the sentinel, and from that yield
\* breaks out of while True.
UpstreamError ==
    /\ pc = "stream"
    /\ Land(<<Yield(Cur, ErrorEvent, <<>>), Yield(Cur, DoneEvent, <<>>),
              Stage(Cur, <<>>, <<>>, <<>>, "closed")>>, streamPos)
    /\ UNCHANGED <<requests, nchunks, streamPos, lastDelta>>
    /\ UNCHANGED notServer

----------------------------------------------------------------------------
(* cli.py: TagStreamer.                                                    *)

UpperLetters == <<"A", "B", "C", "D", "E", "F", "G", "H", "I", "J", "K", "L", "M",
                  "N", "O", "P", "Q", "R", "S", "T", "U", "V", "W", "X", "Y", "Z">>
LowerLetters == <<"a", "b", "c", "d", "e", "f", "g", "h", "i", "j", "k", "l", "m",
                  "n", "o", "p", "q", "r", "s", "t", "u", "v", "w", "x", "y", "z">>

\* the lower-case form of one character (re.IGNORECASE, name.lower())
Lower(c) ==
    IF \E i \in DOMAIN UpperLetters : UpperLetters[i] = c
    THEN LowerLetters[CHOOSE i \in DOMAIN UpperLetters : UpperLetters[i] = c]
    ELSE c

LowerText(s) == [i \in DOMAIN s |-> Lower(s[i])]

\* the test that lets any character follow the "<"
CanStartAny(c) == TRUE

\* re.match(r"[\/A-Za-z]", c)
CanStartTag(c) ==
    \/ c = "/"
    \/ \E i \in DOMAIN LowerLetters : LowerLetters[i] = Lower(c)

\* _VALID, and the names of the alternation (python|output) of _TAG_RX
TagNames == { <<"p", "y", "t", "h", "o", "n">>, <<"o", "u", "t", "p", "u", "t">> }

\* the name of a region as the kind of a segment
KindOf(name) == IF name = <<"p", "y", "t", "h", "o", "n">> THEN "python" ELSE "output"

\* the texts _TAG_RX matches, in lower case: <(/?)(python|output)>
TagText(closing, name) == <<"<">> \o (IF closing THEN <<"/">> ELSE <<>>) \o name \o <<">">>
Tags == { TagText(c, n) : c \in BOOLEAN, n \in TagNames }

\* _TAG_RX matches at offset i of a text whose lower-case form is lb
TagAt(lb, i) == \E t \in Tags : OccursAt(lb, t, i)

\* _TAG_RX.search(b) finds a match
HasTag(b) ==
    LET lb == LowerText(b)
    IN  \E i \in 0..(Len(b) - 1) : TagAt(lb, i)

\* m.span() and m.groups() of _TAG_RX.search(b): the leftmost match
TagSearch(b) ==
    LET lb == LowerText(b)
        start == CHOOSE i \in 0..(Len(b) - 1) :
                    TagAt(lb, i) /\ \A j \in 0..(i - 1) : ~TagAt(lb, j)
        t == CHOOSE t \in Tags : OccursAt(lb, t, start)
    IN  [start |-> start,
         end |-> start + Len(t),
         closing |-> t[2] = "/",
         name |-> IF t[2] = "/" THEN SubSeq(t, 3, Len(t) - 1) ELSE SubSeq(t, 2, Len(t) - 1)]

Segment(text, kind) == [text |-> text, kind |-> kind]

\* the tag text in the lower case the name is compared in
TagSegmentLowered(b, m) == Segment(LowerText(Slice(b, m.start, m.end)), "None")

\* the tag text appended as a neutral segment: self._buf[start:end]
TagSegment(b, m) == Segment(Slice(b, m.start, m.end), "None")

\* a close tag that ends only the region of its own name
NextActiveMatched(act, m) ==
    IF m.closing
    THEN (IF act = KindOf(m.name) THEN "None" ELSE act)
    ELSE KindOf(m.name)

\* "update active block": if name in self._VALID, active becomes None on a
\* close tag and the name on an open tag
NextActive(act, m) ==
    IF m.name \in TagNames
    THEN (IF m.closing THEN "None" ELSE KindOf(m.name))
    ELSE act

\* 1) pull out all complete tags: the while True loop of feed
RECURSIVE PullTags(_, _, _)
PullTags(b, act, o) ==
    IF ~HasTag(b) THEN [buf |-> b, active |-> act, out |-> o]
    ELSE LET m == TagSearch(b)
             before == IF m.start > 0 THEN <<Segment(Slice(b, 0, m.start), act)>> ELSE <<>>
         IN  PullTags(SliceFrom(b, m.end), NextActive(act, m),
                      o \o before \o <<TagSegment(b, m)>>)

\* 2) flush any trailing text that is known not to start a tag
FlushTail(st) ==
    LET b == st.buf
        idx == Find(b, <<"<">>)
    IN  IF b = <<>> THEN st
        ELSE IF idx >= 0
        THEN IF idx + 1 >= Len(b) \/ ~CanStartTag(b[idx + 2])
             THEN [st EXCEPT !.out = @ \o <<Segment(b, st.active)>>, !.buf = <<>>]
             ELSE [st EXCEPT
                     !.out = @ \o (IF idx > 0
                                   THEN <<Segment(Slice(b, 0, idx), st.active)>>
                                   ELSE <<>>),
                     !.buf = SliceFrom(b, idx)]
        ELSE [st EXCEPT !.out = @ \o <<Segment(b, st.active)>>, !.buf = <<>>]

\* TagStreamer.feed(chunk) on a streamer whose fields are b and act: the new
\* fields and the returned list
Feed(b, act, chunk) == FlushTail(PullTags(b \o chunk, act, <<>>))

\* TagStreamer(): a fresh streamer fed one text
FeedWhole(text) == Feed(<<>>, "None", text)

\* the reasoning texts the client may receive in one event
TagChunks ==
    { <<"a">>,
      <<"<">>,
      <<"a", "<", "b">>,
      <<"<", "p", "y">>,
      <<"t", "h", "o", "n", ">">>,
      <<"p", "y", "t", "h", "o", "n", ">">>,
      <<"<", "<", "p", "y">>,
      OpenPython,
      ClosePython,
      <<"<", "O", "u", "t", "p", "u", "t", ">">>,
      <<"<", "/", "o", "u", "t", "p", "u", "t", ">", "c">> }

\* main: one event with reasoning_content is read and fed to the tagger, and
\* every returned segment is displayed.
FeedReasoning ==
    /\ cpc = "reading"
    /\ nfeeds < MaxFeeds
    /\ \E chunk \in TagChunks :
          LET r == Feed(buf, active, chunk)
          IN  /\ buf' = r.buf
              /\ active' = r.active
              /\ out' = out \o r.out
              /\ lastOut' = r.out
              /\ lastChunk' = chunk
              /\ fed' = fed \o chunk
    /\ nfeeds' = nfeeds + 1
    /\ UNCHANGED cpc
    /\ UNCHANGED notClient

\* main: the sentinel is read, or the response ends: the for loop is left
\* and the turn is appended to the history.
EndOfStream ==
    /\ cpc = "reading"
    /\ cpc' = "ended"
    /\ UNCHANGED <<buf, active, out, fed, lastChunk, lastOut, nfeeds>>
    /\ UNCHANGED notClient

----------------------------------------------------------------------------
(* server.py: chat_completions, validation of the inbound request.         *)

\* One element of "messages", as far as chat_completions looks at it: whether
\* it is a JSON object (a dict, which has get), its "role" and whether it has
\* a "content".
UserMessage == [dict |-> TRUE, role |-> "user", content |-> TRUE]
SystemMessage == [dict |-> TRUE, role |-> "system", content |-> TRUE]
\* {"role": "user"}
NoContentMessage == [dict |-> TRUE, role |-> "user", content |-> FALSE]
\* an element that is a string or a number
NotDictMessage == [dict |-> FALSE, role |-> "absent", content |-> FALSE]

\* the lists "messages" may be
MessageLists ==
    { <<>>,
      <<UserMessage>>,
      <<SystemMessage, UserMessage>>,
      <<UserMessage, UserMessage, SystemMessage>>,
      <<NotDictMessage>>,
      <<NotDictMessage, SystemMessage>>,
      <<SystemMessage, NotDictMessage>>,
      <<UserMessage, NoContentMessage>>,
      <<NoContentMessage, UserMessage>> }

\* the values of "stream", each as its JSON text, and "absent" for no key
StreamValues == {"absent", "false", "true", "null", "0", "1", "\"\"", "\"false\""}

\* An inbound body, as far as chat_completions looks at it: whether it parses
\* as JSON and then is an object ("object") or another value ("other": an
\* array, a string, a number, null), what its "messages" is ("absent", a
\* value that is no list, or the list in messages), and its "stream".
Bodies ==
    { [parse |-> p, messagesKind |-> "absent", messages |-> <<>>, stream |-> "absent"] :
        p \in {"invalid", "other"} }
    \cup
    { [parse |-> "object", messagesKind |-> k, messages |-> <<>>, stream |-> st] :
        k \in {"absent", "notlist"}, st \in StreamValues }
    \cup
    { [parse |-> "object", messagesKind |-> "list", messages |-> m, stream |-> st] :
        m \in MessageLists, st \in StreamValues }

\* a well-formed streaming request of one user message
ValidBody ==
    [parse |-> "object", messagesKind |-> "list", messages |-> <<UserMessage>>,
     stream |-> "true"]

\* bool(v) of a parsed JSON value is False
Falsy == {"false", "null", "0", "0.0", "\"\"", "[]", "{}"}

\* body.get("stream", False) is truthy
StreamRequested(b) == b.stream # "absent" /\ b.stream \notin Falsy

\* The for loop over messages: the index of the first element it does not
\* pass, one that has no get or one whose role is "system"; 0 when it passes
\* them all.
FirstStop(ms) ==
    LET stops == { i \in DOMAIN ms : ~ms[i].dict \/ ms[i].role = "system" }
    IN  IF stops = {} THEN 0 ELSE CHOOSE i \in stops : \A j \in stops : i <= j

\* The answer of chat_completions before it builds the turn: 400 for each
\* HTTPException it raises, 500 for an exception it does not catch
\* (AttributeError of get on a value that is no dict, IndexError of
\* messages[-1] on an empty list, KeyError of ["content"]), 200 when it goes
\* on to build the turn; in the order of the code.
Answer(b) ==
    IF b.parse = "invalid" THEN 400
    ELSE IF b.parse = "other" THEN 500
    ELSE IF b.messagesKind # "list" THEN 400
    ELSE IF FirstStop(b.messages) # 0
    THEN IF b.messages[FirstStop(b.messages)].dict THEN 400 ELSE 500
    ELSE IF ~StreamRequested(b) THEN 400
    ELSE IF b.messages = <<>> THEN 500
    ELSE IF ~b.messages[Len(b.messages)].content THEN 500
    ELSE 200

\* chat_completions up to "return StreamingResponse": a body that is not
\* answered 200 leaves the handler by an exception before the turn state
\* exists; otherwise the turn state is built and event_stream starts at the
\* head of its loop.
Validate ==
    /\ pc = "validate"
    /\ status' = Answer(body)
    /\ IF Answer(body) # 200
       THEN /\ pc' = "rejected"
            /\ UNCHANGED <<prefix, is_thinking, start_with_code>>
       ELSE /\ pc' = "request"
            /\ prefix' = SeedCode
            /\ is_thinking' = TRUE
            /\ start_with_code' = TRUE
    /\ UNCHANGED <<needs_restart, py_env, buffer, already_sent, maybe_send, sink, requests,
                   nchunks, streamPos, sentReq, executed, lastDelta, todo, body>>
    /\ UNCHANGED <<turnVars, clientVars>>

----------------------------------------------------------------------------
(* server.py: the execution namespace of several turns in one process.     *)

Turns == 1..MaxTurns

\* one namespace for the whole process
SharedEnv(t) == 1

\* "py_env: dict[str, object] = {}" in chat_completions: every call of the
\* handler makes a dict object of its own, named here by the turn.
NewEnv(t) == t

\* A request is accepted: chat_completions makes the namespace of the turn.
Admit(t) ==
    /\ tpc[t] = "idle"
    /\ tpc' = [tpc EXCEPT ![t] = "running"]
    /\ turn_env' = [turn_env EXCEPT ![t] = NewEnv(t)]
    /\ heap' = [heap EXCEPT ![NewEnv(t)] = {}]
    /\ UNCHANGED <<bound, runs>>
    /\ UNCHANGED notTurns

\* the source texts of the blocks the turns run
Sources ==
    { <<"\n">>, SrcAssign, SrcName, SrcSum, SrcPrint \o <<"\n">> \o SrcDiv, SrcExit,
      SrcAssign \o <<"\n">> \o SrcExit, SrcDel, SrcName \o <<"<">> \o SrcSum }

\* event_stream of turn t reaches run_python(code, py_env), in any of its
\* sub-requests: the block is evaluated in the dict the turn holds, and a
\* fault run_python does not catch ends the generator of the turn. bound is
\* what the blocks of turn t alone make of a namespace.
Execute(t) ==
    /\ tpc[t] = "running"
    /\ runs[t] < MaxRuns
    /\ \E src \in Sources :
          \E oc \in {Evaluate(src, heap[turn_env[t]])} :
              /\ heap' = [heap EXCEPT ![turn_env[t]] = oc.env]
              /\ bound' = [bound EXCEPT ![t] = Evaluate(src, @).env]
              /\ tpc' = [tpc EXCEPT ![t] = IF Returns(oc) THEN "running" ELSE "done"]
    /\ runs' = [runs EXCEPT ![t] = @ + 1]
    /\ UNCHANGED turn_env
    /\ UNCHANGED notTurns

\* The generator of turn t ends.
Finish(t) ==
    /\ tpc[t] = "running"
    /\ tpc' = [tpc EXCEPT ![t] = "done"]
    /\ UNCHANGED <<turn_env, heap, bound, runs>>
    /\ UNCHANGED notTurns

----------------------------------------------------------------------------
(* Specifications.                                                         *)

\* chat_completions up to the return of the StreamingResponse, and a fresh
\* TagStreamer on the client.
Init ==
    /\ pc = "request"
    /\ prefix = SeedCode
    /\ is_thinking = TRUE
    /\ needs_restart = FALSE
    /\ start_with_code = TRUE
    /\ py_env = {}
    /\ buffer = <<>>
    /\ already_sent = <<>>
    /\ maybe_send = <<>>
    /\ sink = <<>>
    /\ requests = 0
    /\ nchunks = 0
    /\ streamPos = 0
    /\ sentReq = <<>>
    /\ executed = <<>>
    /\ lastDelta = <<>>
    /\ todo = <<>>
    /\ body = ValidBody
    /\ status = 200
    /\ tpc = [t \in Turns |-> "idle"]
    /\ turn_env = [t \in Turns |-> 0]
    /\ heap = [e \in Turns |-> {}]
    /\ bound = [t \in Turns |-> {}]
    /\ runs = [t \in Turns |-> 0]
    /\ cpc = "reading"
    /\ buf = <<>>
    /\ active = "None"
    /\ out = <<>>
    /\ fed = <<>>
    /\ lastChunk = <<>>
    /\ lastOut = <<>>
    /\ nfeeds = 0

Next ==
    \/ Request
    \/ Chunk
    \/ ChunkNoContent
    \/ ChunkForward
    \/ Resume
    \/ ConsumerCloses
    \/ StreamEnd
    \/ AfterLoop
    \/ UpstreamError

Spec == Init /\ [][Next]_vars

\* The client alone: a TagStreamer fed an arbitrary sequence of chunks.
NextTag ==
    \/ FeedReasoning
    \/ EndOfStream

SpecTag == Init /\ [][NextTag]_vars

\* The handler from the arrival of a request: any body of Bodies comes in,
\* nothing of the turn exists yet.
InitInbound ==
    /\ pc = "validate"
    /\ body \in Bodies
    /\ status = 0
    /\ prefix = <<>>
    /\ is_thinking = FALSE
    /\ needs_restart = FALSE
    /\ start_with_code = FALSE
    /\ py_env = {}
    /\ buffer = <<>>
    /\ already_sent = <<>>
    /\ maybe_send = <<>>
    /\ sink = <<>>
    /\ requests = 0
    /\ nchunks = 0
    /\ streamPos = 0
    /\ sentReq = <<>>
    /\ executed = <<>>
    /\ lastDelta = <<>>
    /\ todo = <<>>
    /\ tpc = [t \in Turns |-> "idle"]
    /\ turn_env = [t \in Turns |-> 0]
    /\ heap = [e \in Turns |-> {}]
    /\ bound = [t \in Turns |-> {}]
    /\ runs = [t \in Turns |-> 0]
    /\ cpc = "reading"
    /\ buf = <<>>
    /\ active = "None"
    /\ out = <<>>
    /\ fed = <<>>
    /\ lastChunk = <<>>
    /\ lastOut = <<>>
    /\ nfeeds = 0

NextInbound ==
    \/ Validate
    \/ Next

SpecInbound == InitInbound /\ [][NextInbound]_vars

\* Several turns of one process, their steps interleaved in any order.
NextTurns ==
    \E t \in Turns :
        \/ Admit(t)
        \/ Execute(t)
        \/ Finish(t)

SpecTurns == Init /\ [][NextTurns]_vars

----------------------------------------------------------------------------
(* What the properties below speak of.                                     *)

\* the texts of the reasoning_content deltas yielded so far, concatenated
RECURSIVE ReasoningOf(_)
ReasoningOf(events) ==
    IF events = <<>> THEN <<>>
    ELSE (IF Head(events).type = "reasoning" THEN Head(events).text ELSE <<>>)
         \o ReasoningOf(Tail(events))

\* the texts of segments, concatenated
RECURSIVE TextOf(_)
TextOf(segs) == IF segs = <<>> THEN <<>> ELSE Head(segs).text \o TextOf(Tail(segs))

\* segments with adjacent segments of the same kind concatenated
RECURSIVE Merge(_)
Merge(segs) ==
    IF Len(segs) <= 1 THEN segs
    ELSE LET rest == Merge(Tail(segs))
         IN  IF Head(segs).kind = Head(rest).kind
             THEN <<Segment(Head(segs).text \o Head(rest).text, Head(rest).kind)>> \o Tail(rest)
             ELSE <<Head(segs)>> \o rest

\* the sentinel has been yielded
DoneYielded == sink # <<>> /\ sink[Len(sink)].type = "done"

\* the number of error events yielded
ErrorCount == Cardinality({ i \in DOMAIN sink : sink[i].type = "error" })

\* what was fed before the latest feed call
FedBefore == Slice(fed, 0, Len(fed) - Len(lastChunk))

\* The received text a sub-request that is over (restart or end of stream) owes
\* the client: up to and including the code-closing marker that triggered the
\* execution, up to the end-of-reasoning marker, or all of it.
Owed ==
    IF needs_restart /\ is_thinking
    THEN Slice(buffer, 0, RIndex(buffer, ClosePython) + Len(ClosePython))
    ELSE IF needs_restart THEN SplitHead(buffer, CloseThink)
    ELSE buffer

----------------------------------------------------------------------------
(* The claims.                                                             *)

\* C1: no output text is emitted twice: in every sub-request the reasoning
\* deltas taken from received text, concatenated, are a prefix of the text
\* received (the seeded "<python>\n" first), so each delta is the next piece of
\* received text not yet forwarded, also after a partial "</think" was held
\* back and released through maybe_send.
C1_NoTextEmittedTwice == StartsWith(buffer, sentReq)

\* C2: chunk-split invariance of TagStreamer.feed: whenever neither the
\* streamer fed chunk by chunk nor a fresh streamer fed the whole text in one
\* call withholds anything, both have emitted the same segments, adjacent
\* segments of the same region concatenated.
C2_ChunkSplitInvariance ==
    (buf = <<>> /\ FeedWhole(fed).buf = <<>>) => Merge(out) = Merge(FeedWhole(fed).out)

\* C3: the sentinel is the last event of the turn: once "data: [DONE]" has been
\* yielded no event follows it and no further upstream sub-request is issued.
C3_DoneIsFinal == [][DoneYielded => (sink' = sink /\ requests' = requests)]_vars

\* C4: idempotent execution: no code block, identified by the place of its
\* closing marker in the text received over the turn, is passed to run_python
\* twice, however many restarts follow its execution.
C4_ExecutedOnce ==
    \A i, j \in DOMAIN executed : i # j => executed[i].at # executed[j].at

C4_Witness ==
    /\ Len(executed) >= 2
    /\ requests >= 3
    /\ pc = "stream"

\* C5: exactly-once delivery, no loss: when a sub-request is over (it restarts
\* or its stream ended) with thinking open at its start, the reasoning deltas
\* forwarded in it are exactly the received text owed to the client: up to and
\* including the code-closing marker that triggered execution, up to but
\* excluding a completed end-of-reasoning marker, or everything received.
C5_NothingLost ==
    (pc = "after" /\ (is_thinking \/ needs_restart)) => sentReq = Owed

\* at most one error event is ever yielded; it is the last event, or the
\* sentinel follows it as the last event; and when event_stream has returned
\* the sentinel has followed it
ErrorEndsTurn ==
    /\ ErrorCount <= 1
    /\ ErrorCount = 1 =>
          /\ pc \in {"yield", "closed", "gone"}
          /\ \/ sink[Len(sink)] = ErrorEvent
             \/ (Len(sink) >= 2 /\ sink[Len(sink) - 1] = ErrorEvent
                                /\ sink[Len(sink)] = DoneEvent)
          /\ pc = "closed" => sink[Len(sink)] = DoneEvent

\* C6: an upstream failure yields exactly one error event, then, to a
\* consumer that is still reading, the sentinel and nothing else, and ends the
\* turn: no upstream sub-request is issued after the error, whatever
\* is_thinking and needs_restart are.
C6_ErrorTerminates ==
    /\ []ErrorEndsTurn
    /\ [][ErrorCount = 1 =>
             /\ requests' = requests
             /\ nchunks' = nchunks
             /\ sink' = sink \/ (sink[Len(sink)] = ErrorEvent /\ sink' = Append(sink, DoneEvent))]_vars

C6_Witness ==
    /\ pc = "closed"
    /\ ~is_thinking
    /\ executed # <<>>
    /\ ErrorCount = 1

\* C7: split-marker holdback: when a recognized tag arrives split, its head
\* ending what was fed before the latest feed call and its tail starting the
\* chunk of that call, the call returns the tag as one segment of region None.
C7_SplitTagRecognized ==
    \A t \in Tags : \A k \in 1..(Len(t) - 1) :
        (/\ EndsWith(LowerText(FedBefore), Slice(t, 0, k))
         /\ StartsWith(LowerText(lastChunk), SliceFrom(t, k)))
        => \E i \in DOMAIN lastOut :
              lastOut[i].kind = "None" /\ LowerText(lastOut[i].text) = t

\* C8: conservation: the texts of all segments and tag events returned so
\* far, concatenated, followed by the pending buffer, are the chunks fed so
\* far, concatenated, character for character in the original letter case.
C8_Conservation == TextOf(out) \o buf = fed

C8_Witness ==
    /\ nfeeds = MaxFeeds
    /\ buf # <<>>
    /\ \E i \in DOMAIN out : out[i] = Segment(<<"<", "O", "u", "t", "p", "u", "t", ">">>, "None")
    /\ \E i \in DOMAIN out : out[i].kind = "output"

\* C9: at the end of the stream nothing is left withheld: when the client has
\* left its reading loop, every character fed to the TagStreamer has been
\* returned in a segment.
C9_FlushedAtEnd == cpc = "ended" => (buf = <<>> /\ TextOf(out) = fed)

\* C10: prefix / sink agreement: at every restart and at termination, prefix
\* beyond its seed is the reasoning text forwarded after the seeded
\* "<python>\n", followed by "</think>\n" once thinking is closed and by
\* nothing else.
C10_PrefixIsSink ==
    pc \in {"after", "request", "closed"} =>
        prefix = SeedCode \o SliceFrom(ReasoningOf(sink), Len(SeedCode))
                          \o (IF is_thinking THEN <<>> ELSE CloseThinkLine)

\* C11: the end-of-reasoning marker is never leaked: the reasoning text
\* forwarded to the client, all deltas concatenated, never contains "</think>",
\* whether the marker came in one chunk or split across chunks.
C11_MarkerNeverLeaked == ~Contains(ReasoningOf(sink), CloseThink)

\* The output blocks forwarded to the client
OutputBlocks == { i \in DOMAIN sink : sink[i].type = "reasoning" /\ StartsWith(sink[i].text, OutputHead) }

\* C12: run_python never propagates a fault: whatever the executed source
\* does, the call returns a text, the turn goes on, and that text has been
\* forwarded as an output block, one for every block executed.
C12_FaultNeverPropagates == pc # "raised" /\ Cardinality(OutputBlocks) = Len(executed)

\* C13: every turn has an execution namespace of its own, kept over all its
\* run_python calls: what a block of a turn can see is exactly what the
\* earlier blocks of that same turn have bound, and two turns that are being
\* served never hold the same namespace.
C13_NamespacePerTurn ==
    /\ \A t \in Turns : tpc[t] # "idle" => heap[turn_env[t]] = bound[t]
    /\ \A t, u \in Turns :
          (t # u /\ tpc[t] # "idle" /\ tpc[u] # "idle") => turn_env[t] # turn_env[u]

C13_Witness ==
    /\ tpc[1] = "running" /\ tpc[2] = "running"
    /\ runs[1] >= 2 /\ runs[2] >= 1
    /\ bound[1] = {SrcName} /\ bound[2] = {}

\* C14: once thinking is over, every upstream chunk is forwarded as it came
\* and in order, as a content event; nothing is forwarded as reasoning, no
\* block is executed, the namespace and prefix stay as they are, and thinking
\* is not reopened.
C14_AnswerPassThrough ==
    [][~is_thinking =>
          /\ ~is_thinking'
          /\ prefix' = prefix
          /\ executed' = executed
          /\ py_env' = py_env
          /\ ReasoningOf(sink') = ReasoningOf(sink)
          /\ (nchunks' # nchunks => sink' = Append(sink, Raw(lastDelta')))]_vars

C14_Witness ==
    /\ ~is_thinking
    /\ pc = "stream"
    /\ executed # <<>>
    /\ sink # <<>>
    /\ sink[Len(sink)] = Raw(ClosePython)

\* a body that is not JSON, whose "messages" is no list, that holds a message
\* of role "system", or whose "stream" is not true
Malformed(b) ==
    \/ b.parse # "object"
    \/ b.messagesKind # "list"
    \/ \E i \in DOMAIN b.messages : b.messages[i].role = "system"
    \/ b.stream # "true"

\* C15: a malformed inbound request is rejected up front: it is answered with
\* an error, and at no time is an upstream sub-request issued, an event sent,
\* a block executed or any turn state (prefix, thinking flag, seed flag)
\* created.
C15_MalformedRejected ==
    Malformed(body) =>
        /\ pc \in {"validate", "rejected"}
        /\ status \in (IF pc = "rejected" THEN {400, 500} ELSE {0})
        /\ requests = 0
        /\ sink = <<>>
        /\ executed = <<>>
        /\ prefix = <<>>
        /\ ~is_thinking
        /\ ~start_with_code

\* a complete block in b: a <python> with a </python> somewhere after it
HasBlock(b) ==
    \E i, j \in 0..Len(b) :
        i < j /\ OccursAt(b, OpenPython, i) /\ OccursAt(b, ClosePython, j)

\* C16: every complete block triggers execution: while thinking is open, the
\* stream of a sub-request is never read on with a complete
\* <python>...</python> in the text received so far; the chunk that completed
\* it has led to run_python and a restart, whatever else that chunk carried.
C16_BlockAlwaysExecuted == (pc = "stream" /\ is_thinking) => ~HasBlock(buffer)

\* the last <python> of b has no </python> after it
OpenRegion(b) ==
    RIndex(b, OpenPython) # -1 /\ RIndex(b, OpenPython) > RIndex(b, ClosePython)

\* where the code of the open region of b starts: after its <python> marker,
\* and after the newline when the marker is the seed of the turn
CodeStart(b) ==
    IF RIndex(b, OpenPython) = 0 /\ StartsWith(b, SeedCode)
    THEN Len(SeedCode)
    ELSE RIndex(b, OpenPython) + Len(OpenPython)

\* run_python was called in the step that led here
JustExecuted == (pc = "after" /\ needs_restart /\ is_thinking) \/ pc = "raised"

\* C17 as stated: inside a code region that is still open nothing of the
\* code is forwarded: what has been sent of the received text ends where the
\* code starts.
C17_CodeWithheld ==
    (pc = "stream" /\ is_thinking /\ OpenRegion(buffer))
        => StartsWith(Slice(buffer, 0, CodeStart(buffer)), sentReq)

\* C17: inside a code region that is still open the received text is
\* forwarded as it arrives (all of it, when no "</python>" was received and
\* the text does not end in the start of "</think>"); what waits for the
\* closing marker is the execution: run_python is called only when the last
\* <python> of buffer has a </python> after it, on the text between the two,
\* and no output block is sent without such a call.
C17_ExecutionWaits ==
    /\ JustExecuted =>
          /\ 0 <= RIndex(buffer, OpenPython)
          /\ RIndex(buffer, OpenPython) < RIndex(buffer, ClosePython)
          /\ executed[Len(executed)].code =
                Slice(buffer, RIndex(buffer, OpenPython) + Len(OpenPython),
                      RIndex(buffer, ClosePython))
    /\ Cardinality(OutputBlocks) <= Len(executed)
    /\ (pc = "stream" /\ is_thinking /\ OpenRegion(buffer)
           /\ ~Contains(buffer, ClosePython) /\ PartialLen(buffer) = 0)
          => Len(sentReq) >= Len(buffer)

C17_Witness ==
    /\ pc = "stream"
    /\ is_thinking
    /\ OpenRegion(buffer)
    /\ ~Contains(buffer, ClosePython)
    /\ Len(buffer) > Len(SeedCode)
    /\ sentReq = buffer
    /\ executed = <<>>

\* C18: when a block has been executed, prefix, as the next sub-request
\* sends it, ends with that block as received, from its <python> up to and
\* including its </python>, followed at once by the output block.
C18_PrefixEndsWithBlock ==
    (pc = "after" /\ needs_restart /\ is_thinking) =>
        EndsWith(prefix,
                 Slice(buffer, RIndex(buffer, OpenPython),
                       RIndex(buffer, ClosePython) + Len(ClosePython))
                 \o sink[Len(sink)].text)

\* C19: the sub-requests of a turn never overlap: a chunk is taken only from
\* the stream of the latest sub-request and only while no restart is pending,
\* a pending restart takes no further chunk and issues nothing before the
\* stream has been left, and a sub-request is issued only from the head of the
\* loop, when no stream is being read.
C19_NoOverlap ==
    [][/\ nchunks' # nchunks => (pc = "stream" /\ ~needs_restart)
       /\ needs_restart => (pc = "after" /\ nchunks' = nchunks /\ requests' = requests)
       /\ requests' # requests => (pc = "request" /\ pc' = "stream" /\ buffer' = <<>>)]_vars

C19_Witness ==
    /\ requests >= 2
    /\ pc = "stream"
    /\ executed # <<>>
    /\ buffer # <<>>
    /\ is_thinking

\* C20: after every feed call _buf is empty or a proper prefix of one of the
\* four tags, compared without regard to case (so it holds at most 8
\* characters).
C20_BufIsTagPrefix ==
    \/ buf = <<>>
    \/ \E t \in Tags : Len(buf) < Len(t) /\ StartsWith(t, LowerText(buf))

\* The region after the segments segs, read one after the other from the
\* region r: a segment whose text is a tag must be neutral and sets the region
\* (its name for an open tag, None for a close tag of either name); any other
\* segment must carry the region it is read in. "bad" when a segment does not.
RECURSIVE RegionAfter(_, _)
RegionAfter(segs, r) ==
    IF segs = <<>> \/ r = "bad" THEN r
    ELSE LET seg == Head(segs)
             lt == LowerText(seg.text)
         IN  IF lt \in Tags
             THEN (IF seg.kind # "None" THEN "bad"
                   ELSE RegionAfter(Tail(segs),
                                    IF lt[2] = "/" THEN "None"
                                    ELSE IF lt = OpenPython THEN "python" ELSE "output"))
             ELSE (IF seg.kind # r THEN "bad" ELSE RegionAfter(Tail(segs), r))

\* C21: region tracking: read in order from region None, every tag segment
\* emitted so far is neutral, every other segment carries the region left by
\* the tags before it, and active is the region left by the last tag: the
\* name of an open tag, None after a close tag of either name.
C21_RegionTracking ==
    /\ active \in {"None", "python", "output"}
    /\ RegionAfter(out, "None") = active

C21_Witness ==
    /\ active = "None"
    /\ \E i \in DOMAIN out :
          /\ i + 2 \in DOMAIN out
          /\ out[i].kind = "python"
          /\ LowerText(out[i + 1].text) = <<"<", "/", "o", "u", "t", "p", "u", "t", ">">>
          /\ out[i + 2] = Segment(<<"c">>, "None")

\* C22: the sent cursor: while a sub-request is streaming with thinking
\* open, already_sent is a prefix of buffer, so the guard
\* text_to_yield.startswith(already_sent) holds when a marker completes.
C22_SentCursorIsPrefix == (pc = "stream" /\ is_thinking) => StartsWith(buffer, already_sent)

\* "/" or an ASCII letter
SlashOrLetter(c) ==
    \/ c = "/"
    \/ \E i \in DOMAIN LowerLetters : c = LowerLetters[i] \/ c = UpperLetters[i]

\* C23: after every feed call _buf holds no complete tag and is empty or
\* starts with "<" followed at once by "/" or a letter, and every segment
\* emitted so far that is not a tag holds no complete tag.
C23_BufferShape ==
    /\ ~HasTag(buf)
    /\ buf = <<>> \/ (Len(buf) >= 2 /\ buf[1] = "<" /\ SlashOrLetter(buf[2]))
    /\ \A i \in DOMAIN out : LowerText(out[i].text) \notin Tags => ~HasTag(out[i].text)

C23_Witness ==
    /\ buf = <<"<", "p", "y">>
    /\ \E i \in DOMAIN out : out[i] = Segment(<<"<", "<", "p", "y">>, "python")
    /\ \E i \in DOMAIN out : out[i] = Segment(<<"<">>, "None")

====
